---- MODULE Spec2Model ----
(***************************************************************************)
(* A model of the Sansa installer for OpenClaw.                            *)
(*                                                                         *)
(*   - ConfigMerger: deepMerge and patchOpenClawConfig                     *)
(*     (src/src/config-patch.ts, lines 17-106).                            *)
(*   - UsageAggregator: the savings-tracker script, the SAVINGS_TRACKER_MJS*)
(*     template (src/src/config-patch.ts, lines 174-364).                  *)
(*                                                                         *)
(* Each component has its own specification over the shared variables; the *)
(* variables of the other components stay at their idle values.            *)
(***************************************************************************)
EXTENDS Integers, Sequences, FiniteSets, TLC

VARIABLES
    \* ---- deepMerge applied to a pair of documents
    target,      \* the document passed as `target`
    patch,       \* the document passed as `source`
    merged,      \* the document deepMerge returned
    mpc,         \* "input" before the call, "merged" after it, "again" after a second
    patchQ,      \* a second patch, applied after or before `patch`
    mergedQP,    \* the result of applying patchQ first, then patch
    \* ---- the world of the savings tracker
    now,         \* the clock, Date.now(), in milliseconds
    rootExists,  \* whether ~/.openclaw/agents exists
    store,       \* per agent directory: its sessions directory and record file
    sansaFile,   \* the content of ~/.openclaw/sansa.json
    stateFile,   \* the content of ~/.openclaw/sansa/state.json, the checkpoint
    \* ---- one invocation of savings-tracker.mjs
    pc,          \* the position of the script
    config,      \* const config = loadSansaConfig()
    state,       \* const state = loadState(), updated in place
    sinceMs,     \* const sinceMs = state.lastReportedAt || 0
    tokens,      \* const tokens = scanSessionLogs(sinceMs)
    report,      \* what the script printed: period and lifetime costs
    exitCode,    \* the exit code of the last invocation that ended
    runs,        \* the number of invocations started
    \* ---- history of the tracker
    prior,       \* the checkpoint as loadState returned it to this invocation
    lensAtScan,  \* per agent, the length of its record file when it was scanned
    countedNow,  \* the records <<agent, index>> this invocation's scan summed
    prev,        \* the last invocation that saved: cutoff, totals, timestamp
    savedCounted, \* the records summed by invocations that saved
    periods,     \* the period totals of the invocations that saved
    saves,       \* the writes of state.json by this invocation
    \* ---- the installer and ~/.openclaw/openclaw.json
    cfgFile,     \* the content of openclaw.json
    backups,     \* the files openclaw.json.bak.<t>: a function from t to content
    ipc,         \* the position of the installer
    apiKey,      \* the API key the installer holds
    existingCfg, \* const existing = readJson(CONFIG_PATH) ?? {}
    mergedCfg,   \* const merged = deepMerge(existing, sansaPatch)
    installExit, \* the exit code of the last installer run that ended
    addHeartbeat, \* const addHeartbeat = heartbeatChoice === 0
    homeFiles,   \* the hook files, savings-tracker.mjs and HEARTBEAT.md
    inv,         \* overlapping tracker invocations: each one's position and locals
    stored,      \* the Date.now() values those invocations stored (history)
    \* ---- history of the installer
    preCfg,      \* openclaw.json as patchOpenClawConfig found it
    preBackups,  \* the backup files there were when patchOpenClawConfig began
    steps,       \* the steps after the patch this install has executed
    writes,      \* the calls of writeJson(CONFIG_PATH, ...) in this install
    threw        \* the step of this install that threw: "none" when none did

mergeVars == <<target, patch, merged, mpc, patchQ, mergedQP>>

worldVars == <<now, rootExists, store, sansaFile, stateFile>>

runVars == <<pc, config, state, sinceMs, tokens, report, exitCode, runs>>

histVars == <<prior, lensAtScan, countedNow, prev, savedCounted, periods, saves>>

overlapVars == <<inv, stored>>

trackerVars == <<worldVars, runVars, histVars, overlapVars>>

installVars == <<cfgFile, backups, ipc, apiKey, existingCfg, mergedCfg, installExit,
                 preCfg, preBackups, addHeartbeat, steps, writes, threw, homeFiles>>

vars == <<mergeVars, trackerVars, installVars>>

-----------------------------------------------------------------------------
(***************************************************************************)
(* Bounds of the model.                                                    *)
(***************************************************************************)
\* The clock runs from 1 to MaxTime.
MaxTime == 3

\* The lines a record file of the tracker's world can hold.
MaxLines == 2

\* The invocations of the tracker.
MaxRuns == 2

\* The lines of the record file a single scan is applied to.
MaxScanLines == 3

\* The cutoffs a single scan is applied with run from 0 to MaxCutoff.
MaxCutoff == 2

-----------------------------------------------------------------------------
(***************************************************************************)
(* JSON values.  A value is a tagged variant: null, a scalar (number,      *)
(* string or boolean, held as a string), an array, or a plain object whose *)
(* payload is a function from its own keys to values.  A document is the   *)
(* payload of a plain object.  Undefined is what out[key] yields for a key *)
(* the object does not have.  Keys are ordinary own-property names.        *)
(***************************************************************************)
Null == [t |-> "null"]

Undefined == [t |-> "undefined"]

Scalar(s) == [t |-> "scalar", s |-> s]

Arr(a) == [t |-> "array", a |-> a]

Obj(m) == [t |-> "object", m |-> m]

EmptyDoc == [k \in {} |-> Null]

\* val !== null && typeof val === "object" && !Array.isArray(val)
IsPlainObject(v) == v.t = "object"

\* out[key]
Get(out, key) == IF key \in DOMAIN out THEN out[key] ELSE Undefined

\* A seeded bug: assigning a key starts the accumulator afresh.
PutResets(out, key, val) == [k \in {key} |-> val]

\* out[key] = val
Put(out, key, val) == [k \in DOMAIN out \cup {key} |-> IF k = key THEN val ELSE out[k]]

\* A seeded bug: the accumulator starts empty instead of as a copy of target.
SpreadCopyDropsTarget(doc) == EmptyDoc

\* const out = { ...target }
SpreadCopy(doc) == [k \in DOMAIN doc |-> doc[k]]

RECURSIVE deepMerge(_, _)
RECURSIVE MergeEntries(_, _, _)

\* A seeded bug: two arrays are concatenated instead of the patch's replacing.
MergeValueConcat(existing, val) ==
    IF IsPlainObject(val) /\ IsPlainObject(existing)
    THEN Obj(deepMerge(existing.m, val.m))
    ELSE IF val.t = "array" /\ existing.t = "array"
         THEN Arr(existing.a \o val.a)
         ELSE val

\* A seeded bug: a scalar of the target is kept beside the scalar that
\* replaces it.
MergeValueKeepsBoth(existing, val) ==
    IF IsPlainObject(val) /\ IsPlainObject(existing)
    THEN Obj(deepMerge(existing.m, val.m))
    ELSE IF val.t = "scalar" /\ existing.t = "scalar"
         THEN Arr(<<existing, val>>)
         ELSE val

\* The value stored at out[key]: lines 46-60.
MergeValue(existing, val) ==
    IF IsPlainObject(val) /\ IsPlainObject(existing)
    THEN Obj(deepMerge(existing.m, val.m))
    ELSE val

\* for (const [key, val] of Object.entries(source)) { ... }: lines 44-61.
MergeEntries(out, source, keys) ==
    IF keys = {}
    THEN out
    ELSE LET key == CHOOSE k \in keys : TRUE
             val == source[key]
             existing == Get(out, key)
         IN  MergeEntries(Put(out, key, MergeValue(existing, val)), source, keys \ {key})

deepMerge(tgt, source) == MergeEntries(SpreadCopy(tgt), source, DOMAIN source)

MergeIdle ==
    /\ target = EmptyDoc
    /\ patch = EmptyDoc
    /\ merged = EmptyDoc
    /\ mpc = "idle"
    /\ patchQ = EmptyDoc
    /\ mergedQP = EmptyDoc

(***************************************************************************)
(* Files.  A file holding JSON is "absent", "garbage" (JSON.parse throws)  *)
(* or "json" with the value it parses to and the form of its text: "std"   *)
(* as JSON.stringify(data, null, 2) + "\n" writes it, "user" as somebody   *)
(* else wrote it.  Two files are the same bytes when they are equal.       *)
(***************************************************************************)
AbsentFile == [k |-> "absent"]

GarbageFile == [k |-> "garbage"]

TextFile(v, form) == [k |-> "json", v |-> v, form |-> form]

JsonFile(v) == TextFile(v, "std")

NoBackups == [t \in {} |-> AbsentFile]

\* A text file of the workspace is absent or a sequence of pieces of text.
AbsentText == [k |-> "absent"]
Text(chunks) == [k |-> "text", chunks |-> chunks]

\* The pieces HEARTBEAT.md is made of: the user's own notes, a line of the
\* user's that names savings-tracker.mjs, the blurb as appended (with its
\* leading newline) and the blurb as written into a new file (trimStart).
HeartbeatChunks == {"notes", "mention", "blurb", "blurbTrimmed"}

\* existing.includes("savings-tracker.mjs")
includesMarker(chunks) ==
    \E i \in 1..Len(chunks) : chunks[i] \in {"mention", "blurb", "blurbTrimmed"}

\* A seeded bug: the blurb is appended without looking at the file.
updateHeartbeatAlwaysAppends(file) ==
    IF file.k = "text"
    THEN Text(Append(file.chunks, "blurb"))
    ELSE Text(<<"blurbTrimmed">>)

\* updateHeartbeat, lines 201-221.
updateHeartbeat(file) ==
    IF file.k = "text"
    THEN IF includesMarker(file.chunks)
         THEN file
         ELSE Text(Append(file.chunks, "blurb"))
    ELSE Text(<<"blurbTrimmed">>)

\* The files of the home directory the later steps write: hook stands for
\* HOOK.md and handler.js, script for savings-tracker.mjs; each is absent,
\* of an earlier version ("old") or as this installer writes it.
FreshHome == [hook |-> "absent", script |-> "absent", heartbeat |-> AbsentText]

InstallIdle ==
    /\ cfgFile = AbsentFile
    /\ backups = NoBackups
    /\ ipc = "off"
    /\ apiKey = ""
    /\ existingCfg = EmptyDoc
    /\ mergedCfg = EmptyDoc
    /\ installExit = 0
    /\ preCfg = AbsentFile
    /\ preBackups = NoBackups
    /\ addHeartbeat = FALSE
    /\ steps = {}
    /\ writes = 0
    /\ threw = "none"
    /\ homeFiles = FreshHome


-----------------------------------------------------------------------------
(***************************************************************************)
(* The savings tracker.                                                    *)
(*                                                                         *)
(* Money.  The code computes in binary floating point; the model holds     *)
(* rates in tenths of a dollar per million tokens and costs in units of    *)
(* 1e-7 dollar, so that (tokens / 1_000_000) * rate is the exact integer   *)
(* tokens * rate.  Rounding is not modelled.                               *)
(***************************************************************************)
Pricing(inRate, outRate) == [inputCostPerMillion |-> inRate, outputCostPerMillion |-> outRate]

\* A seeded bug: the fallback has the two pricing tables exchanged.
DefaultSansaConfigSwapped == [baseline |-> [inputCostPerMillion |-> 15, outputCostPerMillion |-> 60],
                              sansa |-> [inputCostPerMillion |-> 100, outputCostPerMillion |-> 50]]

\* The fallback of loadSansaConfig: baseline 10 / 5, sansa 1.5 / 6.0.
DefaultSansaConfig == [baseline |-> Pricing(100, 50), sansa |-> Pricing(15, 60)]

\* loadSansaConfig: lines 201-210.
loadSansaConfig(file) == IF file.k = "json" THEN file.v ELSE DefaultSansaConfig

DefaultState == [lastReportedAt |-> 0, lifetimeInput |-> 0, lifetimeOutput |-> 0]

\* loadState: lines 212-218.
loadState(file) == IF file.k = "json" THEN file.v ELSE DefaultState

\* saveState: lines 220-223.
saveState(st) == JsonFile(st)

(***************************************************************************)
(* Record lines.  A line of a .jsonl file is blank, garbage (JSON.parse    *)
(* throws), or an entry.  An entry has a usage block or not; its           *)
(* message.timestamp is a number, missing, or text (not a number); each    *)
(* token field is a number, Absent, or NotNumber: a string.  A sum is a     *)
(* number or, once a string was added to it, NotNumber: a string.          *)
(***************************************************************************)
Absent == -1

NotNumber == -2

\* x + y of JavaScript on numbers and strings: a string operand makes the
\* result the concatenation, a string.
Plus(x, y) == IF x = NotNumber \/ y = NotNumber THEN NotNumber ELSE x + y

BlankLine == [k |-> "blank"]

GarbageLine == [k |-> "garbage"]

NoUsageLine == [k |-> "entry", usage |-> FALSE]

Rec(tsKind, ts, input, input_tokens, output, output_tokens) ==
    [k |-> "entry", usage |-> TRUE, tsKind |-> tsKind, ts |-> ts,
     input |-> input, input_tokens |-> input_tokens,
     output |-> output, output_tokens |-> output_tokens]

IsRecord(line) == line.k = "entry" /\ line.usage

\* a ?? b
Nullish(a, b) == IF a = Absent THEN b ELSE a

NoTokens == [inputTokens |-> 0, outputTokens |-> 0]

AddTokens(x, y) ==
    [inputTokens |-> Plus(x.inputTokens, y.inputTokens),
     outputTokens |-> Plus(x.outputTokens, y.outputTokens)]

\* A seeded bug: a record without a numeric timestamp is always excluded.
CutoffExcludedNoTimestamp(line, since) ==
    \/ line.tsKind # "num"
    \/ line.ts < since

\* A seeded bug: the comparison is reversed, later records are excluded.
CutoffExcludedAfter(line, since) ==
    /\ line.tsKind # "text"
    /\ (IF line.tsKind = "missing" THEN 0 ELSE line.ts) > since

\* A seeded bug: the cutoff test excludes the cutoff millisecond itself.
CutoffExcludedInclusive(line, since) ==
    /\ line.tsKind # "text"
    /\ (IF line.tsKind = "missing" THEN 0 ELSE line.ts) <= since

\* const ts = entry.message?.timestamp ?? 0; if (ts < sinceMs) continue;
\* lines 254-255.  A timestamp that is not a number compares false.
CutoffExcluded(line, since) ==
    /\ line.tsKind # "text"
    /\ (IF line.tsKind = "missing" THEN 0 ELSE line.ts) < since

\* Whether the loop body reaches the two += for this line: lines 248-255.
Counted(line, since) ==
    /\ line.k = "entry"
    /\ line.usage
    /\ ~CutoffExcluded(line, since)

\* What one line adds to the sums: lines 248-260.
LineTokens(line, since) ==
    IF Counted(line, since)
    THEN [inputTokens |-> Nullish(line.input, Nullish(line.input_tokens, 0)),
          outputTokens |-> Nullish(line.output, Nullish(line.output_tokens, 0))]
    ELSE NoTokens

RECURSIVE SumLines(_, _, _)
SumLines(lines, i, since) ==
    IF i > Len(lines)
    THEN NoTokens
    ELSE AddTokens(LineTokens(lines[i], since), SumLines(lines, i + 1, since))

RECURSIVE SumLinesAbortOnGarbage(_, _, _)
SumLinesAbortOnGarbage(lines, i, since) ==
    IF i > Len(lines) \/ lines[i].k = "garbage"
    THEN NoTokens
    ELSE AddTokens(LineTokens(lines[i], since), SumLinesAbortOnGarbage(lines, i + 1, since))

\* A seeded bug: a line that fails to decode ends the loop over the file.
ScanLinesAbortOnGarbage(lines, since) == SumLinesAbortOnGarbage(lines, 1, since)

\* for (const line of lines) { ... }: lines 247-261.
ScanLines(lines, since) == SumLines(lines, 1, since)

(***************************************************************************)
(* The record store.  Each agent directory has a sessions directory or     *)
(* not, and one record file: its lines, its mtime, and whether statSync    *)
(* ("nostat") or readFileSync ("noread") throws on it.                     *)
(***************************************************************************)
Agents == {"a1", "a2"}

FileOf(lines, mtimeMs, perm) == [lines |-> lines, mtimeMs |-> mtimeMs, perm |-> perm]

AgentDir(sessions, file) == [sessions |-> sessions, file |-> file]

\* The files the loops of lines 237-241 reach.
Visited(root, st) == IF root THEN {a \in Agents : st[a].sessions} ELSE {}

\* A seeded bug: a file modified in the cutoff millisecond is skipped too.
ReadFilesInclusive(root, st, since) ==
    {a \in Visited(root, st) : ~(st[a].file.mtimeMs <= since)}

\* The files whose content is read: line 244.
ReadFiles(root, st, since) ==
    {a \in Visited(root, st) : ~(st[a].file.mtimeMs < since)}

\* statSync (line 243) or readFileSync (line 246) throws; nothing catches it.
ScanThrows(root, st, since) ==
    \/ \E a \in Visited(root, st) : st[a].file.perm = "nostat"
    \/ \E a \in ReadFiles(root, st, since) : st[a].file.perm = "noread"

RECURSIVE SumFiles(_, _, _)
SumFiles(as, st, since) ==
    IF as = {}
    THEN NoTokens
    ELSE LET a == CHOOSE x \in as : TRUE
         IN  AddTokens(ScanLines(st[a].file.lines, since), SumFiles(as \ {a}, st, since))

\* scanSessionLogs: lines 227-266.  threw: an exception left the function.
scanSessionLogs(root, st, since) ==
    IF ScanThrows(root, st, since)
    THEN [threw |-> TRUE, inputTokens |-> 0, outputTokens |-> 0]
    ELSE LET sum == SumFiles(ReadFiles(root, st, since), st, since)
         IN  [threw |-> FALSE, inputTokens |-> sum.inputTokens,
              outputTokens |-> sum.outputTokens]

\* The records a scan sums, by place.
CountedRecords(root, st, since) ==
    UNION {{<<a, i>> : i \in {j \in 1..Len(st[a].file.lines) :
                                 Counted(st[a].file.lines[j], since)}} :
           a \in ReadFiles(root, st, since)}

\* A seeded bug: the savings are clamped at zero.
computeCostsClamped(tok, cfg) ==
    LET baseInput == tok.inputTokens * cfg.baseline.inputCostPerMillion
        baseOutput == tok.outputTokens * cfg.baseline.outputCostPerMillion
        sansaInput == tok.inputTokens * cfg.sansa.inputCostPerMillion
        sansaOutput == tok.outputTokens * cfg.sansa.outputCostPerMillion
        saved == (baseInput + baseOutput) - (sansaInput + sansaOutput)
    IN  [baselineTotal |-> baseInput + baseOutput,
         sansaTotal |-> sansaInput + sansaOutput,
         saved |-> IF saved < 0 THEN 0 ELSE saved,
         inputTokens |-> tok.inputTokens,
         outputTokens |-> tok.outputTokens]

\* computeCosts: lines 270-283.
computeCosts(tok, cfg) ==
    LET baseInput == tok.inputTokens * cfg.baseline.inputCostPerMillion
        baseOutput == tok.outputTokens * cfg.baseline.outputCostPerMillion
        sansaInput == tok.inputTokens * cfg.sansa.inputCostPerMillion
        sansaOutput == tok.outputTokens * cfg.sansa.outputCostPerMillion
    IN  [baselineTotal |-> baseInput + baseOutput,
         sansaTotal |-> sansaInput + sansaOutput,
         saved |-> (baseInput + baseOutput) - (sansaInput + sansaOutput),
         inputTokens |-> tok.inputTokens,
         outputTokens |-> tok.outputTokens]

-----------------------------------------------------------------------------
(***************************************************************************)
(* The savings tracker: one invocation of the script, lines 301-363, in    *)
(* the steps the process can be interrupted between, and the world around  *)
(* it: the clock, and the agent runtime appending record lines.            *)
(***************************************************************************)
NoReport ==
    [printed |-> FALSE,
     period |-> computeCosts(NoTokens, DefaultSansaConfig),
     lifetime |-> computeCosts(NoTokens, DefaultSansaConfig)]

NoPrev ==
    [valid |-> FALSE, cut |-> 0, inputTokens |-> 0, outputTokens |-> 0,
     stamp |-> 0, lens |-> [a \in Agents |-> 0]]

EmptyFile(perm) == FileOf(<<>>, 1, perm)

\* The shapes of the record store: no root; two agents with record files;
\* an agent directory without a sessions directory; a record file statSync
\* throws on; a record file readFileSync throws on.
StoreShapes ==
    {[root |-> FALSE,
      dirs |-> [a \in Agents |-> AgentDir(FALSE, EmptyFile("ok"))]],
     [root |-> TRUE,
      dirs |-> [a \in Agents |-> AgentDir(TRUE, EmptyFile("ok"))]],
     [root |-> TRUE,
      dirs |-> [a \in Agents |-> AgentDir(a = "a1", EmptyFile("ok"))]],
     [root |-> TRUE,
      dirs |-> [a \in Agents |->
                  AgentDir(TRUE, EmptyFile(IF a = "a1" THEN "ok" ELSE "nostat"))]],
     [root |-> TRUE,
      dirs |-> [a \in Agents |->
                  AgentDir(TRUE, EmptyFile(IF a = "a1" THEN "ok" ELSE "noread"))]]}

\* A pricing file a user edited: baseline 3 / 15, sansa 1.5 / 6.0.
CustomSansaConfig == [baseline |-> Pricing(30, 150), sansa |-> Pricing(15, 60)]

\* The lines the agent runtime appends at time t: a turn stamped with the
\* current time, and a turn without a timestamp.
NewLines(t) ==
    {Rec("num", t, 1, Absent, 2, Absent),
     Rec("missing", 0, 1, Absent, 2, Absent)}

RunIdle ==
    /\ config = DefaultSansaConfig
    /\ state = DefaultState
    /\ sinceMs = 0
    /\ tokens = NoTokens
    /\ report = NoReport
    /\ prior = DefaultState
    /\ lensAtScan = [a \in Agents |-> 0]
    /\ countedNow = {}

\* An invocation that has not loaded anything.
InvIdle ==
    [pc |-> "idle", state |-> DefaultState, sinceMs |-> 0, tokens |-> NoTokens,
     runs |-> 0]

\* The two invocations that can overlap.
Invocations == {1, 2}

OverlapIdle ==
    /\ inv = [p \in Invocations |-> InvIdle]
    /\ stored = {}

\* No tracker has run and no session has been logged.
TrackerQuiet ==
    /\ OverlapIdle
    /\ now = 1
    /\ rootExists = FALSE
    /\ store = [a \in Agents |-> AgentDir(FALSE, EmptyFile("ok"))]
    /\ stateFile = AbsentFile
    /\ pc = "off"
    /\ RunIdle
    /\ exitCode = 0
    /\ runs = 0
    /\ prev = NoPrev
    /\ savedCounted = {}
    /\ periods = {}
    /\ saves = 0

TrackerIdle ==
    /\ TrackerQuiet
    /\ sansaFile = AbsentFile

TrackerInit ==
    /\ MergeIdle
    /\ InstallIdle
    /\ OverlapIdle
    /\ now = 1
    /\ \E shape \in StoreShapes :
          /\ rootExists = shape.root
          /\ store = shape.dirs
    /\ sansaFile \in {AbsentFile, GarbageFile, JsonFile(CustomSansaConfig)}
    /\ stateFile \in {AbsentFile, GarbageFile}
    /\ pc = "idle"
    /\ RunIdle
    /\ exitCode = 0
    /\ runs = 0
    /\ prev = NoPrev
    /\ savedCounted = {}
    /\ periods = {}
    /\ saves = 0

\* Time passes.
Tick ==
    /\ now < MaxTime
    /\ now' = now + 1
    /\ UNCHANGED <<rootExists, store, sansaFile, stateFile, runVars, histVars, mergeVars, installVars,
                   overlapVars>>

\* The agent runtime appends a line to a record file; the file's mtime is the
\* time of the write.
AppendLine ==
    /\ rootExists
    /\ \E a \in Agents, line \in NewLines(now) :
          /\ store[a].sessions
          /\ store[a].file.perm = "ok"
          /\ Len(store[a].file.lines) < MaxLines
          /\ store' = [store EXCEPT ![a].file =
                          FileOf(Append(store[a].file.lines, line), now, "ok")]
    /\ UNCHANGED <<now, rootExists, sansaFile, stateFile, runVars, histVars, mergeVars, installVars,
                   overlapVars>>

\* A seeded bug: every run scans from the beginning.
CutoffOfAlwaysZero(st) == 0

\* const sinceMs = state.lastReportedAt || 0: line 303.
CutoffOf(st) == IF st.lastReportedAt = 0 THEN 0 ELSE st.lastReportedAt

\* A new process starts and runs lines 301-303: load the pricing and the
\* checkpoint, take the cutoff.  Starting a process takes time, so the clock
\* has moved on since anything an earlier invocation did.
\* state.lastReportedAt || 0 is 0 for a missing or zero timestamp.
Load ==
    /\ pc \in {"idle", "aborted"}
    /\ runs < MaxRuns
    /\ runs' = runs + 1
    /\ now < MaxTime
    /\ now' = now + 1
    /\ config' = loadSansaConfig(sansaFile)
    /\ state' = loadState(stateFile)
    /\ prior' = loadState(stateFile)
    /\ sinceMs' = CutoffOf(loadState(stateFile))
    /\ saves' = 0
    /\ pc' = "loaded"
    /\ exitCode' = 0
    /\ UNCHANGED <<rootExists, store, sansaFile, stateFile, tokens, report,
                   lensAtScan, countedNow, prev, savedCounted, periods, mergeVars,
                   installVars, overlapVars>>

\* Line 304: the scan returns its sums.
ScanOk ==
    /\ pc = "loaded"
    /\ LET r == scanSessionLogs(rootExists, store, sinceMs)
       IN  /\ ~r.threw
           /\ tokens' = [inputTokens |-> r.inputTokens, outputTokens |-> r.outputTokens]
    /\ lensAtScan' = [a \in Agents |-> Len(store[a].file.lines)]
    /\ countedNow' = CountedRecords(rootExists, store, sinceMs)
    /\ pc' = "scanned"
    /\ UNCHANGED <<worldVars, config, state, sinceMs, report, exitCode, runs,
                   prior, prev, savedCounted, periods, saves, mergeVars, installVars,
                   overlapVars>>

\* Line 304: the scan throws; the exception is uncaught and ends the script.
ScanThrow ==
    /\ pc = "loaded"
    /\ scanSessionLogs(rootExists, store, sinceMs).threw
    /\ pc' = "aborted"
    /\ exitCode' = 1
    /\ UNCHANGED <<worldVars, config, state, sinceMs, tokens, report, runs,
                   histVars, mergeVars, installVars, overlapVars>>

\* A seeded bug: the lifetime counters are assigned, not added to.
CheckpointOverwrites(st, tok, t) ==
    [lastReportedAt |-> t,
     lifetimeInput |-> tok.inputTokens,
     lifetimeOutput |-> tok.outputTokens]

\* A seeded bug: the output counter is advanced by the input tokens.
CheckpointSwapped(st, tok, t) ==
    [lastReportedAt |-> t,
     lifetimeInput |-> st.lifetimeInput + tok.inputTokens,
     lifetimeOutput |-> st.lifetimeOutput + tok.inputTokens]

\* A seeded bug: the counters advance and lastReportedAt stays as loaded.
CheckpointKeepsStamp(st, tok, t) ==
    [lastReportedAt |-> st.lastReportedAt,
     lifetimeInput |-> st.lifetimeInput + tok.inputTokens,
     lifetimeOutput |-> st.lifetimeOutput + tok.outputTokens]

\* Lines 306-308: the new checkpoint.
Checkpoint(st, tok, t) ==
    [lastReportedAt |-> t,
     lifetimeInput |-> st.lifetimeInput + tok.inputTokens,
     lifetimeOutput |-> st.lifetimeOutput + tok.outputTokens]

Update ==
    /\ pc = "scanned"
    /\ state' = Checkpoint(state, tokens, now)
    /\ pc' = "updated"
    /\ UNCHANGED <<worldVars, config, sinceMs, tokens, report, exitCode, runs,
                   histVars, mergeVars, installVars, overlapVars>>

\* A seeded bug: the lifetime report has the two counters exchanged.
LifetimeTokensSwapped(st) ==
    [inputTokens |-> st.lifetimeOutput, outputTokens |-> st.lifetimeInput]

\* Lines 311-314: the tokens of the lifetime report are the counters of the
\* state as lines 306-307 left it.
LifetimeTokens(st) ==
    [inputTokens |-> st.lifetimeInput, outputTokens |-> st.lifetimeOutput]

\* Lines 310-336: compute and print the period and lifetime reports.
Report ==
    /\ pc = "updated"
    /\ report' =
          [printed |-> TRUE,
           period |-> computeCosts(tokens, config),
           lifetime |-> computeCosts(LifetimeTokens(state), config)]
    /\ pc' = "reported"
    /\ UNCHANGED <<worldVars, config, state, sinceMs, tokens, exitCode, runs,
                   histVars, mergeVars, installVars, overlapVars>>

\* Line 338: persist the checkpoint.
Save ==
    /\ pc = "reported"
    /\ stateFile' = saveState(state)
    /\ pc' = "saved"
    /\ prev' = [valid |-> TRUE, cut |-> sinceMs,
                inputTokens |-> tokens.inputTokens,
                outputTokens |-> tokens.outputTokens,
                stamp |-> state.lastReportedAt, lens |-> lensAtScan]
    /\ savedCounted' = savedCounted \cup countedNow
    /\ periods' = periods \cup {tokens}
    /\ saves' = saves + 1
    /\ UNCHANGED <<now, rootExists, store, sansaFile, config, state, sinceMs,
                   tokens, report, exitCode, runs, prior, lensAtScan, countedNow,
                   mergeVars, installVars, overlapVars>>

RunReset ==
    /\ config' = DefaultSansaConfig
    /\ state' = DefaultState
    /\ sinceMs' = 0
    /\ tokens' = NoTokens
    /\ report' = NoReport
    /\ prior' = DefaultState
    /\ lensAtScan' = [a \in Agents |-> 0]
    /\ countedNow' = {}

\* A seeded bug: a failed send takes the checkpoint back.
AfterSendRollsBack(send, file) == IF send = "failed" THEN AbsentFile ELSE file

\* state.json after lines 340-363: the send, and the catch of its failure,
\* do not touch it.
AfterSend(send, file) == file

\* Lines 340-363: the optional send, then the script ends.  A failed send sets
\* the exit code to 1.
Finish ==
    /\ pc = "saved"
    /\ \E send \in {"none", "sent", "failed"} :
          /\ exitCode' = IF send = "failed" THEN 1 ELSE 0
          /\ stateFile' = AfterSend(send, stateFile)
    /\ pc' = "idle"
    /\ RunReset
    /\ UNCHANGED <<now, rootExists, store, sansaFile, runs, prev, savedCounted,
                   periods, saves, mergeVars, installVars, overlapVars>>

\* The process is interrupted before the checkpoint is written.
Interrupt ==
    /\ pc \in {"loaded", "scanned", "updated", "reported"}
    /\ pc' = "idle"
    /\ exitCode' = 130
    /\ RunReset
    /\ UNCHANGED <<worldVars, runs, prev, savedCounted, periods, saves, mergeVars,
                   installVars, overlapVars>>

TrackerNext ==
    \/ Tick
    \/ AppendLine
    \/ Load
    \/ ScanOk
    \/ ScanThrow
    \/ Update
    \/ Report
    \/ Save
    \/ Finish
    \/ Interrupt

SpecTracker == TrackerInit /\ [][TrackerNext]_vars

-----------------------------------------------------------------------------
(***************************************************************************)
(* Properties of the tracker.                                              *)
(***************************************************************************)
\* The hypothesis of C1, for the boundary prev.stamp: every record has a
\* numeric timestamp; the records the earlier scan had before it are stamped
\* strictly before the boundary, the records appended after that scan are
\* stamped at or after it.
IncreasingAcrossBoundary ==
    \A a \in Agents :
        \A i \in 1..Len(store[a].file.lines) :
            LET line == store[a].file.lines[i]
            IN  IsRecord(line) =>
                   /\ line.tsKind = "num"
                   /\ i <= prev.lens[a] => line.ts < prev.stamp
                   /\ i > prev.lens[a] => line.ts >= prev.stamp

\* C1: when a scan runs with the cutoff an earlier invocation saved as its
\* checkpoint timestamp, and record timestamps strictly increase across that
\* boundary, the totals of the two scans add up to the totals of one scan of
\* the store with the earlier scan's cutoff: no record is counted by both and
\* none is missed by both.
C1_ScansAddUp ==
    [][(/\ pc = "loaded"
        /\ pc' = "scanned"
        /\ prev.valid
        /\ sinceMs = prev.stamp
        /\ IncreasingAcrossBoundary)
       => LET single == scanSessionLogs(rootExists, store, prev.cut)
          IN  /\ ~single.threw
              /\ prev.inputTokens + tokens'.inputTokens = single.inputTokens
              /\ prev.outputTokens + tokens'.outputTokens = single.outputTokens
              /\ countedNow' \cap savedCounted = {}
              /\ CountedRecords(rootExists, store, prev.cut)
                    \subseteq countedNow' \cup savedCounted]_vars

\* Two scans across a boundary, each of which counted a record.
C1_Witness ==
    /\ pc = "scanned"
    /\ prev.valid
    /\ sinceMs = prev.stamp
    /\ IncreasingAcrossBoundary
    /\ prev.inputTokens > 0
    /\ tokens.inputTokens > 0
    /\ lensAtScan = [a \in Agents |-> Len(store[a].file.lines)]

IsCheckpoint(file) == file.k = "json"

\* C2: from one scan+checkpoint cycle to the next the persisted lifetimeInput
\* and lifetimeOutput never decrease, and the persisted lastReportedAt
\* strictly increases when the invocation times are distinct.
C2_CheckpointMonotonic ==
    [][(IsCheckpoint(stateFile) /\ stateFile' # stateFile)
       => /\ IsCheckpoint(stateFile')
          /\ stateFile'.v.lifetimeInput >= stateFile.v.lifetimeInput
          /\ stateFile'.v.lifetimeOutput >= stateFile.v.lifetimeOutput
          /\ stateFile'.v.lastReportedAt >= stateFile.v.lastReportedAt
          /\ (stateFile'.v.lastReportedAt # stateFile.v.lastReportedAt
                 => stateFile'.v.lastReportedAt > stateFile.v.lastReportedAt)]_vars

\* A second cycle has saved a checkpoint that grew over the first one's.
C2_Witness ==
    /\ pc = "saved"
    /\ runs = 2
    /\ IsCheckpoint(stateFile)
    /\ prior.lifetimeInput > 0
    /\ tokens.outputTokens > 0
    /\ stateFile.v.lifetimeInput > prior.lifetimeInput
    /\ stateFile.v.lastReportedAt > prior.lastReportedAt
    /\ prior.lastReportedAt > 0

\* C3: the checkpoint a run produces is the prior checkpoint with
\* lifetimeInput increased by the period's inputTokens, lifetimeOutput
\* increased by the period's outputTokens, and lastReportedAt set to the
\* current time of the invocation; nothing else in a run changes the
\* persisted counters.
C3_CheckpointContract ==
    /\ [](pc = "saved" =>
            /\ stateFile = JsonFile(state)
            /\ state.lifetimeInput = prior.lifetimeInput + tokens.inputTokens
            /\ state.lifetimeOutput = prior.lifetimeOutput + tokens.outputTokens)
    /\ [][(pc = "scanned" /\ pc' = "updated") => state'.lastReportedAt = now]_vars
    /\ [][stateFile' # stateFile => (pc = "reported" /\ pc' = "saved")]_vars

\* A run that started from a checkpoint with counts and added a period with
\* both directions to it.
C3_Witness ==
    /\ pc = "saved"
    /\ prior.lifetimeInput > 0
    /\ tokens.inputTokens > 0
    /\ tokens.outputTokens > tokens.inputTokens
    /\ stateFile.v.lifetimeOutput = prior.lifetimeOutput + tokens.outputTokens

\* C4, as claimed: an interrupted run leaves the persisted checkpoint as it
\* was, and the records a run counted and checkpointed are not counted again
\* by any later run.
C4_AtMostOnceOnSuccess ==
    /\ [](pc \in {"scanned", "updated", "reported"} => countedNow \cap savedCounted = {})
    /\ [][(pc \in {"loaded", "scanned", "updated", "reported"} /\ pc' = "idle")
          => stateFile' = stateFile]_vars

\* C8, as claimed: whatever the condition of the record store, a run is never
\* ended by the scan; it goes on to its report and its checkpoint.
C8_RunNeverAborts == pc # "aborted"

\* The lastReportedAt of the checkpoint in state.json, 0 when there is none.
StoredCutoff == IF stateFile.k = "json" THEN stateFile.v.lastReportedAt ELSE 0

\* C16: in every invocation the cutoff is taken when the checkpoint is loaded
\* and is the lastReportedAt of the checkpoint file as it is then, or 0 when
\* there is no checkpoint; it does not change until the invocation ends, and
\* the scan's totals are those of a scan with that cutoff.
C16_CutoffIsLoadedCheckpoint ==
    /\ [][pc' = "loaded" /\ pc # "loaded" => sinceMs' = StoredCutoff]_vars
    /\ [][(pc \in {"loaded", "scanned", "updated", "reported"}
             /\ pc' \in {"scanned", "updated", "reported", "saved"}) =>
               sinceMs' = sinceMs]_vars
    /\ [][(pc = "loaded" /\ pc' = "scanned") =>
            LET r == scanSessionLogs(rootExists, store, prior.lastReportedAt)
            IN  /\ tokens'.inputTokens = r.inputTokens
                /\ tokens'.outputTokens = r.outputTokens]_vars

\* A second invocation has scanned with the timestamp the first one saved,
\* and left out a record the first one had counted.
C16_Witness ==
    /\ pc = "scanned"
    /\ runs = 2
    /\ sinceMs > 0
    /\ sinceMs = StoredCutoff
    /\ savedCounted # {}
    /\ countedNow = {}

\* C17: the lifetime report covers the totals including the current period:
\* its token counts are the loaded counters plus the period's, so they are
\* at least the period's and at least those of every period an earlier
\* invocation saved; the saved checkpoint's counters are at least every saved
\* period's; and no write of the checkpoint over an earlier one lowers a
\* counter.
C17_LifetimeCoversPeriods ==
    /\ [](pc \in {"reported", "saved"} =>
            /\ report.lifetime.inputTokens = prior.lifetimeInput + report.period.inputTokens
            /\ report.lifetime.outputTokens = prior.lifetimeOutput + report.period.outputTokens
            /\ report.lifetime.inputTokens >= report.period.inputTokens
            /\ report.lifetime.outputTokens >= report.period.outputTokens
            /\ \A p \in periods :
                  /\ report.lifetime.inputTokens >= p.inputTokens
                  /\ report.lifetime.outputTokens >= p.outputTokens)
    /\ [](\A p \in periods :
            /\ stateFile.k = "json"
            /\ stateFile.v.lifetimeInput >= p.inputTokens
            /\ stateFile.v.lifetimeOutput >= p.outputTokens)
    /\ [][(stateFile.k = "json" /\ stateFile'.k = "json") =>
            /\ stateFile'.v.lifetimeInput >= stateFile.v.lifetimeInput
            /\ stateFile'.v.lifetimeOutput >= stateFile.v.lifetimeOutput]_vars

\* A second invocation has reported a period smaller than the first one's,
\* with a lifetime above both.
C17_Witness ==
    /\ pc = "reported"
    /\ \E p \in periods : p.inputTokens > report.period.inputTokens
    /\ report.period.inputTokens > 0
    /\ \A p \in periods : report.lifetime.inputTokens > p.inputTokens

\* C18: loading never fails.  An invocation always gets from its start to
\* the loaded position; with a missing or unparseable state.json it proceeds
\* from lastReportedAt 0 and counters 0, with a missing or unparseable
\* sansa.json from baseline 10 / 5 and sansa 1.5 / 6 per million (here in
\* tenths); the report it prints and the checkpoint it saves are then the
\* numbers those defaults give.
C18_LoadFallsBackToDefaults ==
    /\ [][(pc \in {"idle", "aborted"} /\ pc' # pc) =>
            /\ pc' = "loaded"
            /\ stateFile.k # "json" =>
                  /\ state' = [lastReportedAt |-> 0, lifetimeInput |-> 0, lifetimeOutput |-> 0]
                  /\ sinceMs' = 0
            /\ sansaFile.k # "json" =>
                  /\ config'.baseline = [inputCostPerMillion |-> 100, outputCostPerMillion |-> 50]
                  /\ config'.sansa = [inputCostPerMillion |-> 15, outputCostPerMillion |-> 60]]_vars
    /\ [](pc \in {"reported", "saved"} /\ sansaFile.k # "json" =>
            /\ report.printed
            /\ report.period.baselineTotal = 100 * tokens.inputTokens + 50 * tokens.outputTokens
            /\ report.period.sansaTotal = 15 * tokens.inputTokens + 60 * tokens.outputTokens
            /\ report.period.saved = 85 * tokens.inputTokens - 10 * tokens.outputTokens)
    /\ [][(pc = "reported" /\ pc' = "saved" /\ stateFile.k # "json") =>
            /\ stateFile'.k = "json"
            /\ stateFile'.v.lastReportedAt \in 1..now
            /\ stateFile'.v.lifetimeInput = tokens.inputTokens
            /\ stateFile'.v.lifetimeOutput = tokens.outputTokens
            /\ report.lifetime = report.period]_vars

\* An invocation that found both files unparseable has saved a checkpoint
\* holding the tokens it counted.
C18_Witness ==
    /\ pc = "saved"
    /\ sansaFile = GarbageFile
    /\ prior = DefaultState
    /\ runs = 1
    /\ tokens.inputTokens > 0
    /\ stateFile.k = "json"
    /\ stateFile.v.lifetimeInput = tokens.inputTokens
    /\ report.period.saved > 0

\* The order of the positions of one invocation: load, scan, update, report,
\* save, then the optional send as the invocation ends; an interrupted or
\* aborted invocation ends where it is.
StepOrder ==
    {<<"idle", "loaded">>, <<"aborted", "loaded">>, <<"loaded", "scanned">>,
     <<"scanned", "updated">>, <<"updated", "reported">>, <<"reported", "saved">>,
     <<"saved", "idle">>, <<"loaded", "aborted">>, <<"loaded", "idle">>,
     <<"scanned", "idle">>, <<"updated", "idle">>, <<"reported", "idle">>}

\* C20: within one invocation the steps come in the order scan, report,
\* persist, send; state.json changes only in the persist step, after the
\* report has been printed, and at most once per invocation, exactly once in
\* one that gets to its send; the send, failed or not, leaves state.json as
\* written and a failed one only sets the exit code to 1.
C20_ReportThenPersistThenSend ==
    /\ [][pc' # pc => <<pc, pc'>> \in StepOrder]_vars
    /\ [][stateFile' # stateFile =>
            /\ pc = "reported"
            /\ pc' = "saved"
            /\ report.printed
            /\ saves = 0
            /\ saves' = 1]_vars
    /\ [](saves <= 1)
    /\ [](pc = "saved" => saves = 1 /\ report.printed /\ stateFile = JsonFile(state))
    /\ [][pc = "saved" /\ pc' # "saved" =>
            /\ stateFile' = stateFile
            /\ exitCode' \in {0, 1}]_vars

\* A second invocation ended with a failed send, and state.json holds the
\* checkpoint it wrote.
C20_Witness ==
    /\ pc = "idle"
    /\ exitCode = 1
    /\ runs = 2
    /\ saves = 1
    /\ prev.valid
    /\ stateFile.k = "json"
    /\ stateFile.v.lastReportedAt = prev.stamp
    /\ stateFile.v.lifetimeInput > prev.inputTokens

-----------------------------------------------------------------------------
(***************************************************************************)
(* scanSessionLogs as a function: one scan of a record store drawn from    *)
(* bounded sets, with a cutoff drawn from 0..MaxCutoff.                    *)
(***************************************************************************)
ScanAlphabet ==
    {BlankLine, GarbageLine, NoUsageLine,
     Rec("num", 1, 1, Absent, 2, Absent),
     Rec("num", 2, Absent, 4, Absent, 8),
     Rec("missing", 0, 16, Absent, Absent, Absent),
     Rec("text", 0, 32, 64, Absent, 128),
     Rec("num", 2, NotNumber, Absent, 1024, Absent)}

SeqsUpTo(n, alphabet) == UNION {[1..m -> alphabet] : m \in 0..n}

\* The latest numeric timestamp in a file: its mtime is not before it.
LastStamp(lines) ==
    LET stamps == {lines[i].ts : i \in {j \in 1..Len(lines) :
                                          IsRecord(lines[j]) /\ lines[j].tsKind = "num"}}
    IN  IF stamps = {} THEN 1 ELSE CHOOSE m \in stamps : \A x \in stamps : x <= m

ScannedFiles ==
    {FileOf(lines, m, "ok") :
        lines \in SeqsUpTo(MaxScanLines, ScanAlphabet), m \in 1..MaxCutoff}

OtherFiles ==
    {FileOf(<<>>, 1, "ok"),
     FileOf(<<Rec("num", 2, 256, Absent, 512, Absent)>>, 2, "ok"),
     FileOf(<<>>, 1, "noread")}

ScanInit ==
    /\ MergeIdle
    /\ InstallIdle
    /\ OverlapIdle
    /\ now = MaxCutoff
    /\ rootExists = TRUE
    /\ \E f1 \in ScannedFiles, f2 \in OtherFiles :
          /\ LastStamp(f1.lines) <= f1.mtimeMs
          /\ store = [a \in Agents |-> AgentDir(TRUE, IF a = "a1" THEN f1 ELSE f2)]
    /\ sansaFile = AbsentFile
    /\ stateFile = AbsentFile
    /\ pc = "loaded"
    /\ config = DefaultSansaConfig
    /\ state = DefaultState
    /\ sinceMs \in 0..MaxCutoff
    /\ tokens = NoTokens
    /\ report = NoReport
    /\ prior = DefaultState
    /\ lensAtScan = [a \in Agents |-> 0]
    /\ countedNow = {}
    /\ exitCode = 0
    /\ runs = 1
    /\ prev = NoPrev
    /\ savedCounted = {}
    /\ periods = {}
    /\ saves = 0

ScanNext == ScanOk \/ ScanThrow

SpecScan == ScanInit /\ [][ScanNext]_vars

\* The store with line i of agent a's record file removed.
WithoutLine(st, a, i) ==
    [st EXCEPT ![a].file.lines =
        [j \in 1..(Len(st[a].file.lines) - 1) |->
            IF j < i THEN st[a].file.lines[j] ELSE st[a].file.lines[j + 1]]]

\* C7: a record file with an undecodable line at any position yields the scan
\* totals of the same file with that line removed: the line is skipped, and
\* the rest of the file and the other files are still summed.
C7_MalformedLineSkipped ==
    pc = "scanned" =>
        \A a \in Agents :
            \A i \in 1..Len(store[a].file.lines) :
                store[a].file.lines[i].k = "garbage" =>
                    LET r == scanSessionLogs(rootExists, WithoutLine(store, a, i), sinceMs)
                    IN  /\ ~r.threw
                        /\ tokens.inputTokens = r.inputTokens
                        /\ tokens.outputTokens = r.outputTokens

\* A scan of a file with an undecodable line between two counted records,
\* with a counted record in the other file.
C7_Witness ==
    /\ pc = "scanned"
    /\ Len(store["a1"].file.lines) = 3
    /\ store["a1"].file.lines[2].k = "garbage"
    /\ countedNow = {<<"a1", 1>>, <<"a1", 3>>, <<"a2", 1>>}
    /\ tokens.inputTokens > 256

\* The token counts of a record as section 4.2 gives them: for each direction
\* the first of the two conventional names that is present, else zero.
RecordTokens(line) ==
    [inputTokens |-> IF line.input # Absent THEN line.input
                     ELSE IF line.input_tokens # Absent THEN line.input_tokens ELSE 0,
     outputTokens |-> IF line.output # Absent THEN line.output
                      ELSE IF line.output_tokens # Absent THEN line.output_tokens ELSE 0]

\* The totals of the scan of the store without line i of agent a's file.
ScanWithout(a, i) ==
    LET r == scanSessionLogs(rootExists, WithoutLine(store, a, i), sinceMs)
    IN  [inputTokens |-> r.inputTokens, outputTokens |-> r.outputTokens]

\* C14: in a scan with cutoff c, a decoded record with a numeric timestamp is
\* left out of the sums exactly when the timestamp is strictly before c: a
\* record stamped before c adds nothing to the totals, and a record stamped
\* at or after c in a file the scan reads adds its token counts.
C14_CutoffIsStrict ==
    pc = "scanned" =>
        \A a \in Agents :
            \A i \in 1..Len(store[a].file.lines) :
                LET line == store[a].file.lines[i]
                IN  (IsRecord(line) /\ line.tsKind = "num") =>
                       /\ line.ts < sinceMs => tokens = ScanWithout(a, i)
                       /\ (line.ts >= sinceMs /\ store[a].sessions
                             /\ store[a].file.mtimeMs >= sinceMs) =>
                             tokens = AddTokens(ScanWithout(a, i), RecordTokens(line))

\* A scan with cutoff 2 of a file holding a record stamped 1 and a record
\* stamped 2: the totals are those of the second record.
C14_Witness ==
    /\ pc = "scanned"
    /\ sinceMs = 2
    /\ store["a1"].file.lines = <<Rec("num", 1, 1, Absent, 2, Absent),
                                  Rec("num", 2, Absent, 4, Absent, 8)>>
    /\ store["a2"].file.lines = <<>>
    /\ tokens = [inputTokens |-> 4, outputTokens |-> 8]

\* Whether the scan reads agent a's record file.
FileIsRead(a) ==
    /\ rootExists
    /\ store[a].sessions
    /\ store[a].file.mtimeMs >= sinceMs

\* C15 as stated: a record whose timestamp is missing or is not a number
\* adds nothing to the totals, whatever the cutoff, the cutoff 0 of a first
\* run included.
C15_NoTimestampExcluded ==
    pc = "scanned" =>
        \A a \in Agents :
            \A i \in 1..Len(store[a].file.lines) :
                LET line == store[a].file.lines[i]
                IN  (IsRecord(line) /\ line.tsKind \in {"missing", "text"}) =>
                       tokens = ScanWithout(a, i)

\* C15 as the code has it: a record whose timestamp is missing is treated as
\* stamped 0, so it adds nothing for every cutoff above 0 and adds its token
\* counts when the cutoff is 0; a record whose timestamp is present but not a
\* number is never cutoff-excluded and adds its token counts whenever its
\* file is read.
C15_NoTimestampAsZero ==
    pc = "scanned" =>
        \A a \in Agents :
            \A i \in 1..Len(store[a].file.lines) :
                LET line == store[a].file.lines[i]
                    counted == tokens = AddTokens(ScanWithout(a, i), RecordTokens(line))
                IN  /\ (IsRecord(line) /\ line.tsKind = "missing") =>
                          /\ sinceMs > 0 => tokens = ScanWithout(a, i)
                          /\ (sinceMs = 0 /\ FileIsRead(a)) => counted
                    /\ (IsRecord(line) /\ line.tsKind = "text" /\ FileIsRead(a)) =>
                          counted

\* A first-run scan (cutoff 0) of a file holding a record without a
\* timestamp and a record with a textual one: both are in the totals.
C15_Witness ==
    /\ pc = "scanned"
    /\ sinceMs = 0
    /\ store["a1"].file.lines = <<Rec("missing", 0, 16, Absent, Absent, Absent),
                                  Rec("text", 0, 32, 64, Absent, 128)>>
    /\ store["a2"].file.lines = <<>>
    /\ tokens = [inputTokens |-> 48, outputTokens |-> 128]

\* The token counts of a record with a missing or non-numeric field taken as
\* zero.
RecordTokensOrZero(line) ==
    LET zeroed(x) == IF x = NotNumber THEN 0 ELSE x
    IN  [inputTokens |-> zeroed(RecordTokens(line).inputTokens),
         outputTokens |-> zeroed(RecordTokens(line).outputTokens)]

\* C19: a counted record adds, for each direction, its token count, or zero
\* when the field is missing under both names or is not a number, and the
\* other direction is still added; the totals of a scan are non-negative
\* integers.
C19_BadTokenFieldIsZero ==
    pc = "scanned" =>
        /\ tokens.inputTokens \in Nat
        /\ tokens.outputTokens \in Nat
        /\ \A a \in Agents :
              \A i \in 1..Len(store[a].file.lines) :
                  LET line == store[a].file.lines[i]
                  IN  (FileIsRead(a) /\ Counted(line, sinceMs)) =>
                         tokens = AddTokens(ScanWithout(a, i), RecordTokensOrZero(line))

\* The totals of a scan that applies only the per-record timestamp check, to
\* every record file the directory walk reaches.
PerRecordOnly(root, st, since) == SumFiles(Visited(root, st), st, since)

\* Agent a's record file is reached by the walk and skipped by its mtime.
FileIsSkipped(a) ==
    /\ rootExists
    /\ store[a].sessions
    /\ store[a].file.mtimeMs < sinceMs

\* Every record of a skipped file has a missing timestamp or a numeric one
\* that is not after the file's last-modified time.
SkippedFilesStampedBeforeMtime ==
    \A a \in Agents :
        FileIsSkipped(a) =>
            \A i \in 1..Len(store[a].file.lines) :
                LET line == store[a].file.lines[i]
                IN  IsRecord(line) =>
                       \/ line.tsKind = "missing"
                       \/ line.tsKind = "num" /\ line.ts <= store[a].file.mtimeMs

\* C21 as stated: the totals of a scan are the totals of applying only the
\* per-record timestamp check to every record file.
C21_MtimeFilterChangesNothing ==
    pc = "scanned" => tokens = PerRecordOnly(rootExists, store, sinceMs)

\* C21 with its condition: a record file last modified strictly before the
\* cutoff is skipped without being read (the scan's totals are the same with
\* the file empty and unreadable), and when every record of every skipped
\* file has a missing timestamp or a numeric one not after the file's
\* last-modified time, the totals are those of applying only the per-record
\* timestamp check to every record file.
C21_MtimeFilterIsOptimization ==
    pc = "scanned" =>
        /\ \A a \in Agents :
              FileIsSkipped(a) =>
                 LET r == scanSessionLogs(rootExists,
                              [store EXCEPT ![a].file =
                                   FileOf(<<>>, store[a].file.mtimeMs, "noread")],
                              sinceMs)
                 IN  /\ ~r.threw
                     /\ tokens.inputTokens = r.inputTokens
                     /\ tokens.outputTokens = r.outputTokens
        /\ SkippedFilesStampedBeforeMtime =>
              tokens = PerRecordOnly(rootExists, store, sinceMs)

\* A scan with cutoff 2 skipped a file last modified at 1 that holds records
\* stamped 1, and counted the record stamped 2 of the other file.
C21_Witness ==
    /\ pc = "scanned"
    /\ sinceMs = 2
    /\ store["a1"].file.mtimeMs = 1
    /\ store["a1"].file.lines = <<Rec("num", 1, 1, Absent, 2, Absent),
                                  Rec("missing", 0, 16, Absent, Absent, Absent)>>
    /\ store["a2"].file.mtimeMs = 2
    /\ tokens = [inputTokens |-> 256, outputTokens |-> 512]

-----------------------------------------------------------------------------
(***************************************************************************)
(* computeCosts as a function: the report step applied to token counts and *)
(* pricing tables drawn from bounded sets.                                 *)
(***************************************************************************)
CostTokens == {0, 1, 250000, 1000000}

CostConfigs ==
    {[baseline |-> b, sansa |-> t] :
        b \in {Pricing(100, 50), Pricing(30, 150)},
        t \in {Pricing(15, 60), Pricing(200, 10)}}

CostsInit ==
    /\ MergeIdle
    /\ InstallIdle
    /\ OverlapIdle
    /\ now = 1
    /\ rootExists = FALSE
    /\ store = [a \in Agents |-> AgentDir(FALSE, EmptyFile("ok"))]
    /\ sansaFile = AbsentFile
    /\ stateFile = AbsentFile
    /\ pc = "updated"
    /\ config \in CostConfigs
    /\ tokens \in [inputTokens : CostTokens, outputTokens : CostTokens]
    /\ prior \in {DefaultState,
                  [lastReportedAt |-> 0, lifetimeInput |-> 1000000, lifetimeOutput |-> 2000000]}
    /\ state = Checkpoint(prior, tokens, now)
    /\ sinceMs = 0
    /\ report = NoReport
    /\ lensAtScan = [a \in Agents |-> 0]
    /\ countedNow = {}
    /\ exitCode = 0
    /\ runs = 1
    /\ prev = NoPrev
    /\ savedCounted = {}
    /\ periods = {}
    /\ saves = 0

CostsNext == Report

SpecCosts == CostsInit /\ [][CostsNext]_vars

\* The cost formula of the specification, in the model's units.
CostOf(tok, pricing) ==
    tok.inputTokens * pricing.inputCostPerMillion
        + tok.outputTokens * pricing.outputCostPerMillion

CostsAsSpecified(r, tok, cfg) ==
    /\ r.baselineTotal = CostOf(tok, cfg.baseline)
    /\ r.sansaTotal = CostOf(tok, cfg.sansa)
    /\ r.saved = CostOf(tok, cfg.baseline) - CostOf(tok, cfg.sansa)
    /\ CostOf(tok, cfg.sansa) > CostOf(tok, cfg.baseline) => r.saved < 0
    /\ r.inputTokens = tok.inputTokens
    /\ r.outputTokens = tok.outputTokens

\* C9: computeCosts yields baseline cost = inputTokens/1,000,000 * baseline
\* input rate + outputTokens/1,000,000 * baseline output rate, the treated
\* cost likewise, and saved = baseline cost - treated cost without clamping,
\* negative when the treated cost is the larger; 1M input + 1M output at
\* {10, 5} against {1.5, 6} gives 15, 7.5 and 7.5 (here in units of 1e-7).
C9_CostFormula ==
    pc = "reported" =>
        /\ CostsAsSpecified(report.period, tokens, config)
        /\ CostsAsSpecified(report.lifetime,
                            [inputTokens |-> state.lifetimeInput,
                             outputTokens |-> state.lifetimeOutput], config)
        /\ (/\ tokens = [inputTokens |-> 1000000, outputTokens |-> 1000000]
            /\ config = DefaultSansaConfig)
           => /\ report.period.baselineTotal = 150000000
              /\ report.period.sansaTotal = 75000000
              /\ report.period.saved = 75000000

\* A report whose period costs more treated than at baseline, while its
\* lifetime does not.
C9_Witness ==
    /\ pc = "reported"
    /\ report.period.saved < 0
    /\ report.period.sansaTotal > report.period.baselineTotal
    /\ report.lifetime.saved > 0

-----------------------------------------------------------------------------
(***************************************************************************)
(* Bounded nested documents for the merge: two keys per level, two levels, *)
(* the leaves a null, a scalar and an array.  Target and patch leaves      *)
(* differ, so which side a value of the result came from is visible.       *)
(***************************************************************************)
MergeKeys == {"a", "b"}

DocsOver(keys, vals) == UNION {[d -> vals] : d \in SUBSET keys}

TargetLeaves == {Null, Scalar("1"), Arr(<<Scalar("1"), Scalar("2")>>)}

PatchLeaves == {Null, Scalar("5"), Arr(<<Scalar("3")>>)}

NestedDocs(leaves) == DocsOver(MergeKeys, leaves \cup {Obj(m) : m \in DocsOver(MergeKeys, leaves)})

TargetDocs == NestedDocs(TargetLeaves)

PatchDocs == NestedDocs(PatchLeaves)

MergeInit ==
    /\ TrackerIdle
    /\ InstallIdle
    /\ target \in TargetDocs
    /\ patch \in PatchDocs
    /\ merged = EmptyDoc
    /\ mpc = "input"
    /\ patchQ = EmptyDoc
    /\ mergedQP = EmptyDoc

\* const merged = deepMerge(existing, sansaPatch): one call of deepMerge.  The
\* call writes only to its own `out` objects, so the object passed as target
\* is the same after the call.
Merge ==
    /\ mpc = "input"
    /\ merged' = deepMerge(target, patch)
    /\ mpc' = "merged"
    /\ UNCHANGED <<target, patch, patchQ, mergedQP, trackerVars, installVars>>

\* The installer is run again and the same patch is merged into the document
\* the first run wrote.
Remerge ==
    /\ mpc = "merged"
    /\ merged' = deepMerge(merged, patch)
    /\ mpc' = "again"
    /\ UNCHANGED <<target, patch, patchQ, mergedQP, trackerVars, installVars>>

MergeNext ==
    \/ Merge
    \/ Remerge

SpecMerge == MergeInit /\ [][MergeNext]_vars

-----------------------------------------------------------------------------
(***************************************************************************)
(* The reference merge of the specification (section 4.1).                 *)
(***************************************************************************)
RECURSIVE RefMerge(_, _)
RefMerge(t, p) ==
    [k \in DOMAIN t \cup DOMAIN p |->
        IF k \notin DOMAIN p THEN t[k]
        ELSE IF k \in DOMAIN t /\ t[k].t = "object" /\ p[k].t = "object"
             THEN Obj(RefMerge(t[k].m, p[k].m))
             ELSE p[k]]

\* C6: deepMerge(target, patch) is the reference merge: the result has the
\* keys of both; a patch key whose existing and incoming values are both
\* plain objects holds their recursive merge; every other patch key holds the
\* incoming value wholesale (arrays replaced, never concatenated), and no
\* patch key is dropped.
C6_DeepMergeIsReferenceMerge ==
    mpc = "merged" =>
        /\ DOMAIN merged = DOMAIN target \cup DOMAIN patch
        /\ merged = RefMerge(target, patch)
        /\ \A k \in DOMAIN patch :
              \/ /\ k \in DOMAIN target
                 /\ IsPlainObject(target[k])
                 /\ IsPlainObject(patch[k])
                 /\ merged[k] = Obj(deepMerge(target[k].m, patch[k].m))
              \/ /\ ~(k \in DOMAIN target /\ IsPlainObject(target[k]) /\ IsPlainObject(patch[k]))
                 /\ merged[k] = patch[k]

\* A merge in which an array met an array, an object met an object, and a
\* scalar met an object.
C6_Witness ==
    /\ mpc = "merged"
    /\ \E k \in DOMAIN target \cap DOMAIN patch :
          /\ target[k].t = "array"
          /\ patch[k].t = "array"
          /\ merged[k] = patch[k]
    /\ \E k \in DOMAIN target \cap DOMAIN patch :
          /\ IsPlainObject(target[k])
          /\ IsPlainObject(patch[k])
          /\ DOMAIN target[k].m \cap DOMAIN patch[k].m # {}
          /\ DOMAIN target[k].m \ DOMAIN patch[k].m # {}

RECURSIVE Untouched(_, _, _)
\* Every key of t absent from p is in r with t's value, at this level and at
\* every level the merge recursed into.
Untouched(t, p, r) ==
    \A k \in DOMAIN t :
        /\ k \notin DOMAIN p => (k \in DOMAIN r /\ r[k] = t[k])
        /\ (k \in DOMAIN p /\ IsPlainObject(t[k]) /\ IsPlainObject(p[k])) =>
              /\ k \in DOMAIN r
              /\ IsPlainObject(r[k])
              /\ Untouched(t[k].m, p[k].m, r[k].m)

\* C10: deepMerge leaves unrelated keys untouched: every key of target absent
\* from patch, at the top level and at every level the merge recurses into,
\* is in the result with the value it had in target, and the target document
\* is not modified by the call.
C10_UnrelatedKeysUntouched ==
    /\ [](mpc = "merged" => Untouched(target, patch, merged))
    /\ [][target' = target]_vars

\* A merge that kept a key of target at the top level and one inside a nested
\* object both documents have.
C10_Witness ==
    /\ mpc = "merged"
    /\ DOMAIN target \ DOMAIN patch # {}
    /\ \E k \in DOMAIN target \cap DOMAIN patch :
          /\ IsPlainObject(target[k])
          /\ IsPlainObject(patch[k])
          /\ DOMAIN target[k].m \ DOMAIN patch[k].m # {}
          /\ DOMAIN patch[k].m # {}

-----------------------------------------------------------------------------
(***************************************************************************)
(* Two patches with disjoint key sets applied to one target in both        *)
(* orders.                                                                 *)
(***************************************************************************)
CommuteInit ==
    /\ TrackerIdle
    /\ InstallIdle
    /\ target \in TargetDocs
    /\ patch \in PatchDocs
    /\ patchQ \in PatchDocs
    /\ DOMAIN patch \cap DOMAIN patchQ = {}
    /\ merged = EmptyDoc
    /\ mergedQP = EmptyDoc
    /\ mpc = "input"

\* deepMerge(deepMerge(t, p), q)
MergePQ ==
    /\ mpc = "input"
    /\ merged' = deepMerge(deepMerge(target, patch), patchQ)
    /\ mpc' = "pq"
    /\ UNCHANGED <<target, patch, patchQ, mergedQP, trackerVars, installVars>>

\* deepMerge(deepMerge(t, q), p)
MergeQP ==
    /\ mpc = "pq"
    /\ mergedQP' = deepMerge(deepMerge(target, patchQ), patch)
    /\ mpc' = "both"
    /\ UNCHANGED <<target, patch, patchQ, merged, trackerVars, installVars>>

CommuteNext == MergePQ \/ MergeQP

SpecCommute == CommuteInit /\ [][CommuteNext]_vars

\* C11: for a target and two patches whose key sets do not overlap, applying
\* the patches in either order gives the same document (the same keys with
\* the same values at every level).
C11_DisjointPatchesCommute ==
    mpc = "both" => merged = mergedQP

\* Both orders were applied, each patch brought a key the target already had
\* as a plain object and merged into it, and the result differs from the
\* target and from either patch applied alone.
C11_Witness ==
    /\ mpc = "both"
    /\ merged = mergedQP
    /\ \E k \in DOMAIN patch \cap DOMAIN target :
          IsPlainObject(patch[k]) /\ IsPlainObject(target[k]) /\ patch[k].m # EmptyDoc
    /\ \E k \in DOMAIN patchQ \cap DOMAIN target : ~IsPlainObject(patchQ[k])
    /\ merged # deepMerge(target, patch)
    /\ merged # deepMerge(target, patchQ)

-----------------------------------------------------------------------------
(***************************************************************************)
(* The installer's configuration patch.                                    *)
(*                                                                         *)
(* cfgFile is ~/.openclaw/openclaw.json; its value is the JSON value the   *)
(* text parses to.  backups maps the epoch-millis suffix of each           *)
(* openclaw.json.bak.<epoch-millis> file to the file's content.            *)
(***************************************************************************)
\* A seeded bug: a failed read yields an error object instead of null.
readJsonErrorObject(file) ==
    IF file.k = "json" THEN file.v ELSE Obj([error |-> Scalar("ENOENT")])

\* readJson: the parsed value, null when the file is missing or unparseable.
readJson(file) == IF file.k = "json" THEN file.v ELSE Null

\* writeJson: JSON.stringify(data, null, 2) + "\n" written to the path.
writeJson(data) == TextFile(Obj(data), "std")

\* readJson(CONFIG_PATH) ?? {}, as deepMerge sees it: { ...existing } of a
\* plain object has its keys, of an array its indices as keys.
ExistingOrEmpty(r) ==
    IF r.t = "null" THEN EmptyDoc
    ELSE IF r.t = "array" THEN [i \in {ToString(j - 1) : j \in DOMAIN r.a} |->
                                   r.a[CHOOSE j \in DOMAIN r.a : ToString(j - 1) = i]]
    ELSE r.m

SANSA_MODEL_ENTRY ==
    Obj([id |-> Scalar("sansa-auto"),
         name |-> Scalar("sansa-auto (Custom Provider)"),
         reasoning |-> Scalar("true"),
         input |-> Arr(<<Scalar("text"), Scalar("image")>>),
         cost |-> Obj([input |-> Scalar("1.5"), output |-> Scalar("6.0"),
                       cacheRead |-> Scalar("0"), cacheWrite |-> Scalar("0")]),
         contextWindow |-> Scalar("131072"),
         maxTokens |-> Scalar("32768")])

sansaPatch(key) ==
    [models |->
        Obj([mode |-> Scalar("merge"),
             providers |->
                Obj("sansa-ai" :>
                    Obj([baseUrl |-> Scalar("https://api.sansaml.com/v1"),
                         apiKey |-> Scalar(key),
                         api |-> Scalar("openai-completions"),
                         models |-> Arr(<<SANSA_MODEL_ENTRY>>)]))]),
     agents |->
        Obj([defaults |->
                Obj([model |-> Obj([primary |-> Scalar("sansa-ai/sansa-auto")]),
                     models |-> Obj("sansa-ai/sansa-auto" :>
                                       Obj([alias |-> Scalar("Sansa")]))])])]

\* A seeded bug: only a file that parsed is backed up.
NeedsBackupOnlyIfParsed(file) == file.k = "json"

\* fs.existsSync(CONFIG_PATH)
NeedsBackup(file) == file.k # "absent"

\* fs.copyFileSync(CONFIG_PATH, `${CONFIG_PATH}.bak.${t}`): the destination is
\* created, or overwritten when a file of that name is there.
copyFileSync(file, bk, t) ==
    [u \in DOMAIN bk \cup {t} |-> IF u = t THEN file ELSE bk[u]]

\* The API keys main can hold once the input is collected; "" is no key.
ApiKeys == {"", "k1", "k2"}

\* process.argv has no --api-key, or nothing after it.
NoArg == "none"

\* What follows --api-key on the command line, and what is typed at the prompt.
ArgKeys == {NoArg, "", " ", "k1"}
TypedKeys == {" ", " k2 "}

\* String.prototype.trim on the strings above.
trim(s) == IF s = " " THEN "" ELSE IF s = " k2 " THEN "k2" ELSE s

\* prompt, lines 45-54: "" when stdin is not a terminal, else the trimmed line.
prompt(tty, typed) == IF tty THEN trim(typed) ELSE ""

\* A seeded bug: the argument is taken as it is, not trimmed.
CollectApiKeyUntrimmed(arg, tty, typed) ==
    IF arg # NoArg /\ arg # "" THEN arg ELSE prompt(tty, typed)

\* main, lines 242-249: the argument when it is there and not empty once
\* trimmed, else the prompt's answer.
CollectApiKey(arg, tty, typed) ==
    LET fromArg == IF arg # NoArg /\ arg # "" THEN trim(arg) ELSE ""
    IN  IF fromArg # "" THEN fromArg ELSE prompt(tty, typed)

\* arrowMenu, line 74: index 0 ("Yes") when stdin is not a terminal, else
\* the item the user picks.
HeartbeatChoices(tty) == IF tty THEN {0, 1} ELSE {0}

\* Configuration files as a user or the gateway left them.
UserConfigs ==
    {AbsentFile,
     GarbageFile,
     TextFile(Null, "user"),
     TextFile(Obj(EmptyDoc), "user"),
     TextFile(Obj([models |-> Obj([mode |-> Scalar("replace"),
                                   providers |-> Obj([openai |-> Obj([apiKey |-> Scalar("u")])])]),
                   agents |-> Obj([defaults |-> Obj([model |-> Obj([primary |-> Scalar("openai/gpt")])])]),
                   theme |-> Scalar("dark")]), "user"),
     TextFile(Obj([models |-> Scalar("none"), agents |-> Arr(<<>>)]), "user"),
     TextFile(Arr(<<Scalar("x")>>), "user")}

PatchInit ==
    /\ MergeIdle
    /\ TrackerIdle
    /\ cfgFile \in UserConfigs
    /\ backups = NoBackups
    /\ ipc = "off"
    /\ apiKey = ""
    /\ existingCfg = EmptyDoc
    /\ mergedCfg = EmptyDoc
    /\ installExit = 0
    /\ preCfg = AbsentFile
    /\ preBackups = NoBackups
    /\ addHeartbeat = FALSE
    /\ steps = {}
    /\ writes = 0
    /\ threw = "none"
    /\ homeFiles = FreshHome

InstallOver == ipc \in {"off", "done", "failed", "exited"}

\* The user or the gateway rewrites or removes openclaw.json while no installer
\* is running.
UserEdits ==
    /\ InstallOver
    /\ \E f \in UserConfigs : cfgFile' = f
    /\ UNCHANGED <<backups, ipc, apiKey, existingCfg, mergedCfg, installExit,
                   preCfg, preBackups, homeFiles, addHeartbeat, steps, writes, threw,
                   trackerVars, mergeVars>>

\* main, lines 242-262: the key is taken from --api-key or the prompt, and the
\* heartbeat menu waits for a key press, so the clock has advanced when the
\* steps begin.  Without a key the installer exits with 1.
InstallStart ==
    /\ InstallOver
    /\ now < MaxTime
    /\ \E t \in (now + 1)..MaxTime : now' = t
    /\ \E arg \in ArgKeys, tty \in BOOLEAN, typed \in TypedKeys :
          LET key == CollectApiKey(arg, tty, typed)
          IN  IF key = ""
              THEN /\ ipc' = "exited"
                   /\ installExit' = 1
                   /\ UNCHANGED <<apiKey, addHeartbeat>>
              ELSE /\ ipc' = "ready"
                   /\ installExit' = 0
                   /\ apiKey' = key
                   /\ \E heartbeatChoice \in HeartbeatChoices(tty) :
                         addHeartbeat' = (heartbeatChoice = 0)
    /\ steps' = {}
    /\ writes' = 0
    /\ threw' = "none"
    /\ UNCHANGED <<cfgFile, backups, existingCfg, mergedCfg, preCfg, preBackups, homeFiles,
                   rootExists, store, sansaFile, stateFile, runVars, histVars,
                   mergeVars, overlapVars>>

\* patchOpenClawConfig, lines 77-99: read, build the patch, merge.
PatchRead ==
    /\ ipc = "ready"
    /\ LET existing == ExistingOrEmpty(readJson(cfgFile))
       IN  /\ existingCfg' = existing
           /\ mergedCfg' = deepMerge(existing, sansaPatch(apiKey))
    /\ preCfg' = cfgFile
    /\ preBackups' = backups
    /\ ipc' = "merged"
    /\ UNCHANGED <<cfgFile, backups, apiKey, installExit, addHeartbeat, steps,
                   writes, threw, homeFiles, trackerVars, mergeVars>>

\* patchOpenClawConfig, lines 101-103: the backup, named by Date.now().
PatchBackup ==
    /\ ipc = "merged"
    /\ backups' = IF NeedsBackup(cfgFile)
                  THEN copyFileSync(cfgFile, backups, now)
                  ELSE backups
    /\ ipc' = "backed"
    /\ UNCHANGED <<cfgFile, apiKey, existingCfg, mergedCfg, installExit, preCfg,
                   preBackups, homeFiles, addHeartbeat, steps, writes, threw, trackerVars,
                   mergeVars>>

\* A seeded bug: the exception is swallowed and the installer goes on with
\* the steps after the patch.
AfterThrowContinues(at) == [ipc |-> "patched", exit |-> 0]

\* An exception in a step leaves main; main().catch (lines 288-291) prints it
\* and exits with 1.
AfterThrow(at) == [ipc |-> "failed", exit |-> 1]

\* copyFileSync throws (the file is unreadable, the directory not writable).
PatchBackupThrows ==
    /\ ipc = "merged"
    /\ NeedsBackup(cfgFile)
    /\ threw' = "backup"
    /\ ipc' = AfterThrow("backup").ipc
    /\ installExit' = AfterThrow("backup").exit
    /\ UNCHANGED <<cfgFile, backups, apiKey, existingCfg, mergedCfg, preCfg,
                   preBackups, homeFiles, addHeartbeat, steps, writes, trackerVars, mergeVars>>

\* patchOpenClawConfig, line 105: writeJson(CONFIG_PATH, merged).
PatchWrite ==
    /\ ipc = "backed"
    /\ cfgFile' = writeJson(mergedCfg)
    /\ writes' = writes + 1
    /\ ipc' = "patched"
    /\ UNCHANGED <<backups, apiKey, existingCfg, mergedCfg, installExit, preCfg,
                   preBackups, homeFiles, addHeartbeat, steps, threw, trackerVars, mergeVars>>

\* writeFileSync throws: the file is as it was, or cut short.
PatchWriteThrows ==
    /\ ipc = "backed"
    /\ cfgFile' \in {cfgFile, GarbageFile}
    /\ writes' = writes + 1
    /\ threw' = "write"
    /\ ipc' = AfterThrow("write").ipc
    /\ installExit' = AfterThrow("write").exit
    /\ UNCHANGED <<backups, apiKey, existingCfg, mergedCfg, preCfg, preBackups, homeFiles,
                   addHeartbeat, steps, trackerVars, mergeVars>>

\* The sansa.json the installer writes: lines 155-160, BASELINE_PRICING and
\* SANSA_PRICING.
InstalledSansaConfig ==
    [savings_notifications |-> TRUE, interval_hours |-> 24,
     baseline |-> Pricing(100, 50), sansa |-> Pricing(15, 60)]

\* createSansaConfig: an existing file that parses is kept.
createSansaConfig(file) ==
    IF file.k = "json" THEN file ELSE JsonFile(InstalledSansaConfig)

\* main, lines 269-270: installStartupHook writes HOOK.md and handler.js.
InstallHook ==
    /\ ipc = "patched"
    /\ steps' = steps \cup {"hook"}
    /\ ipc' = "hooked"
    /\ homeFiles' = [homeFiles EXCEPT !.hook = "installed"]
    /\ UNCHANGED <<cfgFile, backups, apiKey, existingCfg, mergedCfg, installExit,
                   preCfg, preBackups, addHeartbeat, writes, threw, trackerVars,
                   mergeVars>>

\* main, lines 272-273: createSansaConfig.
CreateSansaConfig ==
    /\ ipc = "hooked"
    /\ sansaFile' = createSansaConfig(sansaFile)
    /\ steps' = steps \cup {"sansa.json"}
    /\ ipc' = "configured"
    /\ UNCHANGED <<cfgFile, backups, apiKey, existingCfg, mergedCfg, installExit,
                   preCfg, preBackups, homeFiles, addHeartbeat, writes, threw,
                   now, rootExists, store, stateFile, runVars, histVars, mergeVars,
                   overlapVars>>

\* main, lines 275-276: installSavingsTracker writes savings-tracker.mjs.
InstallTracker ==
    /\ ipc = "configured"
    /\ steps' = steps \cup {"tracker"}
    /\ ipc' = "tracked"
    /\ homeFiles' = [homeFiles EXCEPT !.script = "installed"]
    /\ UNCHANGED <<cfgFile, backups, apiKey, existingCfg, mergedCfg, installExit,
                   preCfg, preBackups, addHeartbeat, writes, threw, trackerVars,
                   mergeVars>>

\* main, lines 278-285: the heartbeat when it was chosen, then the footer.
InstallRest ==
    /\ ipc = "tracked"
    /\ steps' = IF addHeartbeat THEN steps \cup {"heartbeat"} ELSE steps
    /\ homeFiles' = IF addHeartbeat
                    THEN [homeFiles EXCEPT !.heartbeat = updateHeartbeat(@)]
                    ELSE homeFiles
    /\ ipc' = "done"
    /\ UNCHANGED <<cfgFile, backups, apiKey, existingCfg, mergedCfg, installExit,
                   preCfg, preBackups, addHeartbeat, writes, threw, trackerVars,
                   mergeVars>>

\* One of the steps after the patch throws on its own write.
StepThrows ==
    /\ ipc \in {"patched", "hooked", "configured", "tracked"}
    /\ threw' = "step"
    /\ ipc' = AfterThrow("step").ipc
    /\ installExit' = AfterThrow("step").exit
    /\ UNCHANGED <<cfgFile, backups, apiKey, existingCfg, mergedCfg, preCfg,
                   preBackups, homeFiles, addHeartbeat, steps, writes, trackerVars, mergeVars>>

PatchNext ==
    \/ Tick
    \/ UserEdits
    \/ InstallStart
    \/ PatchRead
    \/ PatchBackup
    \/ PatchBackupThrows
    \/ PatchWrite
    \/ PatchWriteThrows
    \/ InstallHook
    \/ CreateSansaConfig
    \/ InstallTracker
    \/ InstallRest
    \/ StepThrows

SpecPatch == PatchInit /\ [][PatchNext]_vars

\* C5: when patchOpenClawConfig has run to its end against an existing
\* configuration file, there is exactly one backup file that was not there
\* before, named by a time not after the present, holding the content the
\* original had when the call began, the earlier backups are as they were,
\* and the original path holds the reference merge of the parsed original
\* (empty when it did not parse) with the Sansa patch; when no file existed
\* the set of backups is unchanged; and whenever the call overwrites an
\* existing file, a new backup with that file's content is already there.
C5_BackupBeforeWrite ==
    /\ [](ipc = "patched" =>
            /\ cfgFile = TextFile(Obj(RefMerge(ExistingOrEmpty(readJson(preCfg)),
                                               sansaPatch(apiKey))), "std")
            /\ preCfg # AbsentFile =>
                  \E t \in DOMAIN backups \ DOMAIN preBackups :
                     /\ t <= now
                     /\ backups[t] = preCfg
                     /\ DOMAIN backups = DOMAIN preBackups \cup {t}
                     /\ \A u \in DOMAIN preBackups : backups[u] = preBackups[u]
            /\ preCfg = AbsentFile => backups = preBackups)
    /\ [][(ipc \in {"ready", "merged", "backed"} /\ cfgFile' # cfgFile
             /\ cfgFile # AbsentFile) =>
            \E t \in DOMAIN backups \ DOMAIN preBackups : backups[t] = cfgFile]_vars

\* A second patch has completed over the standard-form file the first one
\* wrote from an unparseable original: two backups, of different content.
C5_Witness ==
    /\ ipc = "patched"
    /\ preCfg.k = "json"
    /\ preCfg.form = "std"
    /\ \E t, u \in DOMAIN backups : backups[t] = GarbageFile /\ backups[u] = preCfg

\* C12: a configuration file that is missing or does not parse is not an
\* error: the read step always goes on to the merge, the existing
\* configuration is taken as the empty document, and the document then
\* written to the configuration path is the patch itself.
C12_UnreadableConfigIsEmpty ==
    /\ [](preCfg.k \in {"absent", "garbage"} =>
            /\ ipc \in {"merged", "backed", "patched"} =>
                  /\ existingCfg = EmptyDoc
                  /\ mergedCfg = sansaPatch(apiKey)
            /\ ipc = "patched" => cfgFile = TextFile(Obj(sansaPatch(apiKey)), "std"))
    /\ [][(ipc = "ready" /\ ipc' # "ready") => ipc' = "merged"]_vars

\* A patch has completed over a file that did not parse, and the path holds
\* the patch with the key the user gave.
C12_Witness ==
    /\ ipc = "patched"
    /\ preCfg = GarbageFile
    /\ apiKey = "k2"
    /\ cfgFile = TextFile(Obj(sansaPatch("k2")), "std")

\* C13: a failure of the backup copy or of the write of the merged
\* configuration is not caught and not retried: in every install the write is
\* attempted at most once, and once either has thrown the install is in the
\* failed state with exit code 1, none of the later steps (startup hook,
\* sansa.json, savings tracker, heartbeat) has run, and none runs until a new
\* install starts.
C13_WriteFailureStopsInstall ==
    /\ [](writes <= 1)
    /\ [](threw \in {"backup", "write"} =>
            /\ ipc = "failed"
            /\ installExit = 1
            /\ steps = {})
    /\ [][(ipc = "failed" /\ ipc' = "failed") =>
            (steps' = steps /\ writes' = writes /\ backups' = backups
             /\ sansaFile' = sansaFile)]_vars

\* An install failed in its write, leaving the file cut short, after the
\* backup of the original had been taken.
C13_Witness ==
    /\ threw = "write"
    /\ ipc = "failed"
    /\ writes = 1
    /\ cfgFile = GarbageFile
    /\ preCfg.k = "json"
    /\ \E t \in DOMAIN backups \ DOMAIN preBackups : backups[t] = preCfg

\* HEARTBEAT.md as the installer can find it.
HeartbeatFiles ==
    {AbsentText, Text(<<>>), Text(<<"notes">>), Text(<<"notes", "mention">>),
     Text(<<"notes", "blurb", "notes">>)}

\* The home directory before the first install: nothing of Sansa's, or the
\* files of an earlier version.
HomeFiles ==
    {[hook |-> v, script |-> v, heartbeat |-> h] :
        v \in {"absent", "old"}, h \in HeartbeatFiles}

\* sansa.json before the first install: absent, unparseable, or a
\* configuration of the user's.
SansaFiles == {AbsentFile, GarbageFile, JsonFile(CustomSansaConfig)}

\* The whole installer, over the files it can find.
InstallInit ==
    /\ MergeIdle
    /\ TrackerQuiet
    /\ sansaFile \in SansaFiles
    /\ cfgFile \in {AbsentFile, TextFile(Obj(EmptyDoc), "user")}
    /\ homeFiles \in HomeFiles
    /\ backups = NoBackups
    /\ ipc = "off"
    /\ apiKey = ""
    /\ existingCfg = EmptyDoc
    /\ mergedCfg = EmptyDoc
    /\ installExit = 0
    /\ preCfg = AbsentFile
    /\ preBackups = NoBackups
    /\ addHeartbeat = FALSE
    /\ steps = {}
    /\ writes = 0
    /\ threw = "none"

InstallNext ==
    \/ Tick
    \/ InstallStart
    \/ PatchRead
    \/ PatchBackup
    \/ PatchBackupThrows
    \/ PatchWrite
    \/ PatchWriteThrows
    \/ InstallHook
    \/ CreateSansaConfig
    \/ InstallTracker
    \/ InstallRest
    \/ StepThrows

SpecInstall == InstallInit /\ [][InstallNext]_vars

\* How many times the blurb stands in a HEARTBEAT.md.
BlurbCount(file) ==
    IF file.k = "text"
    THEN Cardinality({i \in 1..Len(file.chunks) :
                         file.chunks[i] \in {"blurb", "blurbTrimmed"}})
    ELSE 0

\* The step of main that calls updateHeartbeat.
HeartbeatStep == ipc = "tracked" /\ ipc' = "done" /\ addHeartbeat

\* The new file is the old one with the blurb after it, or a new file that
\* holds the blurb alone.
BlurbAdded(old, new) ==
    IF old.k = "text"
    THEN new = Text(Append(old.chunks, "blurb"))
    ELSE new = Text(<<"blurbTrimmed">>)

\* The old content is the beginning of the new.
ContentKept(old, new) ==
    old.k = "text" =>
        /\ new.k = "text"
        /\ Len(new.chunks) >= Len(old.chunks)
        /\ SubSeq(new.chunks, 1, Len(old.chunks)) = old.chunks

\* HEARTBEAT.md holds the blurb at most once, no step removes earlier content,
\* and no step but the heartbeat step touches the file.
HeartbeatKept ==
    /\ [](BlurbCount(homeFiles.heartbeat) <= 1)
    /\ [][ContentKept(homeFiles.heartbeat, homeFiles'.heartbeat)]_vars
    /\ [][~HeartbeatStep => homeFiles'.heartbeat = homeFiles.heartbeat]_vars

SansaConfigStep == ipc = "hooked" /\ ipc' = "configured"

\* C23: createSansaConfig creates the Sansa config file only if it does not
\* already exist: a sansa.json that is present, whatever it holds, is never
\* changed by an installer step, and when none is present the step writes
\* the file with the default baseline and Sansa pricing.
C23_ExistingSansaConfigKept ==
    /\ [][sansaFile # AbsentFile => sansaFile' = sansaFile]_vars
    /\ [][(SansaConfigStep /\ sansaFile = AbsentFile) =>
            sansaFile' = JsonFile(InstalledSansaConfig)]_vars

\* The positions of main at which the steps run, in the order of the code.
InstallRank ==
    [ready |-> 0, merged |-> 1, backed |-> 2, patched |-> 3, hooked |-> 4,
     configured |-> 5, tracked |-> 6, done |-> 7]

InstallRunning == ipc \in DOMAIN InstallRank \ {"done"}

\* Everything the installer writes.
InstalledFiles == <<cfgFile, backups, homeFiles, sansaFile>>

\* C24: an API key is required before anything is changed.  A run that
\* obtains no key ends with exit code 1 with no step run and openclaw.json,
\* its backups, the hook files, sansa.json, the tracker script and HEARTBEAT.md
\* as they were; a step runs, and a file changes, only while a non-empty
\* trimmed key is held; and within a run the steps go in the fixed order
\* config patch (read, backup, write), hook, sansa.json, tracker, heartbeat,
\* each file being written at its own step only.
C24_KeyBeforeAnyStep ==
    /\ [](ipc = "exited" => installExit = 1 /\ steps = {} /\ writes = 0)
    /\ [][ipc' = "exited" => InstalledFiles' = InstalledFiles]_vars
    /\ [](InstallRunning => apiKey \in ApiKeys \ {""})
    /\ [][InstalledFiles' # InstalledFiles =>
            InstallRunning /\ apiKey \in ApiKeys \ {""}]_vars
    /\ [][(InstallRunning /\ ipc' # ipc) =>
            \/ ipc' = "failed"
            \/ InstallRank[ipc'] = InstallRank[ipc] + 1]_vars
    /\ [][/\ backups' # backups => ipc = "merged"
          /\ cfgFile' # cfgFile => ipc = "backed"
          /\ homeFiles'.hook # homeFiles.hook => ipc = "patched"
          /\ sansaFile' # sansaFile => ipc = "hooked"
          /\ homeFiles'.script # homeFiles.script => ipc = "configured"
          /\ homeFiles'.heartbeat # homeFiles.heartbeat => ipc = "tracked"]_vars

\* After a complete install, a run that obtained no key has exited with 1;
\* the installed files are there as the first run left them.
C24_Witness ==
    /\ ipc = "exited"
    /\ installExit = 1
    /\ steps = {}
    /\ homeFiles.hook = "installed"
    /\ homeFiles.script = "installed"
    /\ cfgFile = TextFile(Obj(sansaPatch("k2")), "std")

\* C25: merging the same patch again changes nothing: for every target t
\* and patch p, deepMerge(deepMerge(t, p), p) = deepMerge(t, p); so a second
\* run of the patch over the file the first run wrote (read, merge with the
\* same patch, back up, write) writes a file of the same content, and its
\* only new effect is one backup, holding that same content.
C25_RepatchIsIdempotent ==
    /\ [][(mpc = "merged" /\ mpc' = "again") => merged' = merged]_vars
    /\ [](mpc \in {"merged", "again"} =>
            /\ merged = deepMerge(target, patch)
            /\ LET first == writeJson(merged)
                   again == writeJson(deepMerge(ExistingOrEmpty(readJson(first)), patch))
               IN  /\ again = first
                   /\ NeedsBackup(first)
                   /\ \A t \in 1..MaxTime :
                         copyFileSync(first, NoBackups, t) = (t :> first))

\* The patch has been merged a second time over a target in which it
\* replaced an array, replaced a scalar, merged into a nested object and left
\* a key alone.
C25_Witness ==
    /\ mpc = "again"
    /\ target = [a |-> Obj([a |-> Arr(<<Scalar("1"), Scalar("2")>>), b |-> Scalar("1")]),
                 b |-> Scalar("1")]
    /\ patch = [a |-> Obj([a |-> Arr(<<Scalar("3")>>), b |-> Scalar("5")])]
    /\ merged = [a |-> Obj([a |-> Arr(<<Scalar("3")>>), b |-> Scalar("5")]),
                 b |-> Scalar("1")]

(***************************************************************************)
(* Two tracker invocations over one state.json and one record store.  Each *)
(* is a process of its own: it loads, scans, stores the new counters and   *)
(* Date.now() in its own state object, then saves; nothing is locked.      *)
(***************************************************************************)
OverlapInit ==
    /\ MergeIdle
    /\ InstallIdle
    /\ OverlapIdle
    /\ now = 1
    /\ rootExists = TRUE
    /\ store = [a \in Agents |-> AgentDir(a = "a1", EmptyFile("ok"))]
    /\ sansaFile = AbsentFile
    /\ stateFile = AbsentFile
    /\ pc = "off"
    /\ RunIdle
    /\ exitCode = 0
    /\ runs = 0
    /\ prev = NoPrev
    /\ savedCounted = {}
    /\ periods = {}
    /\ saves = 0

\* Lines 302-303 in invocation p.  The process was started after the
\* checkpoint it reads was written, hence in a later millisecond than the
\* Date.now() in it.
InvLoad(p) ==
    /\ inv[p].pc = "idle"
    /\ inv[p].runs < MaxRuns
    /\ now > loadState(stateFile).lastReportedAt
    /\ inv' = [inv EXCEPT ![p] =
                  [pc |-> "loaded",
                   state |-> loadState(stateFile),
                   sinceMs |-> CutoffOf(loadState(stateFile)),
                   tokens |-> NoTokens,
                   runs |-> inv[p].runs + 1]]
    /\ UNCHANGED <<worldVars, runVars, histVars, stored, mergeVars, installVars>>

\* Line 304 in invocation p.
InvScan(p) ==
    /\ inv[p].pc = "loaded"
    /\ LET r == scanSessionLogs(rootExists, store, inv[p].sinceMs)
       IN  /\ ~r.threw
           /\ inv' = [inv EXCEPT ![p].pc = "scanned",
                                 ![p].tokens = [inputTokens |-> r.inputTokens,
                                                outputTokens |-> r.outputTokens]]
    /\ UNCHANGED <<worldVars, runVars, histVars, stored, mergeVars, installVars>>

\* Lines 306-308 in invocation p.
InvUpdate(p) ==
    /\ inv[p].pc = "scanned"
    /\ inv' = [inv EXCEPT ![p].pc = "updated",
                          ![p].state = Checkpoint(inv[p].state, inv[p].tokens, now)]
    /\ stored' = stored \cup {now}
    /\ UNCHANGED <<worldVars, runVars, histVars, mergeVars, installVars>>

\* Line 338 in invocation p: the whole file is written over.
InvSave(p) ==
    /\ inv[p].pc = "updated"
    /\ stateFile' = saveState(inv[p].state)
    /\ inv' = [inv EXCEPT ![p].pc = "idle"]
    /\ UNCHANGED <<now, rootExists, store, sansaFile, runVars, histVars, stored,
                   mergeVars, installVars>>

OverlapNext ==
    \/ Tick
    \/ AppendLine
    \/ \E p \in Invocations : InvLoad(p)
    \/ \E p \in Invocations : InvScan(p)
    \/ \E p \in Invocations : InvUpdate(p)
    \/ \E p \in Invocations : InvSave(p)

SpecOverlap == OverlapInit /\ [][OverlapNext]_vars

\* The sums over every record present in the store.
StoreTotals == scanSessionLogs(rootExists, store, 0)

\* The saved lifetime counters are at most the sums over the store.
LifetimeWithinStore ==
    /\ loadState(stateFile).lifetimeInput <= StoreTotals.inputTokens
    /\ loadState(stateFile).lifetimeOutput <= StoreTotals.outputTokens

\* The numeric timestamps of the records in the store.
StoreStamps ==
    UNION {{store[a].file.lines[i].ts :
               i \in {j \in DOMAIN store[a].file.lines :
                         /\ IsRecord(store[a].file.lines[j])
                         /\ store[a].file.lines[j].tsKind = "num"}} :
           a \in Visited(rootExists, store)}

====
